---- MODULE Spec2Model ----
(***************************************************************************)
(* Model of the geocoding preprocessing script of aarhuspride-program      *)
(* (src/preprocess.py): load_data, fetch_coordinates, the rate-limited     *)
(* geocoder returned by get_geocoder, and the batch loop of __main__.      *)
(*                                                                         *)
(* Python text is a sequence of one-character strings.  Python values are  *)
(* records [t |-> type name, v |-> payload].  Time is counted in whole     *)
(* seconds and only the time elapsed since an event is kept, saturating at *)
(* min_delay_seconds (the rate limiter compares it with nothing larger).   *)
(***************************************************************************)
EXTENDS Integers, Sequences, FiniteSets, TLC

(***************************************************************************)
(* Bounds of the model                                                     *)
(***************************************************************************)
MaxRows == 2          \* rows in events.csv
MaxAddresses == 3     \* addresses in one Lokation cell
MaxLatency == 1       \* seconds the backend takes to answer (0 = under a second)

(***************************************************************************)
(* Program constants                                                       *)
(***************************************************************************)
min_delay_seconds == 1      \* RateLimiter(..., min_delay_seconds=1)
geocode_timeout == 10       \* geocode(address, timeout=10)
max_retries == 2            \* RateLimiter default, not overridden by get_geocoder
error_wait_seconds == 5     \* RateLimiter default, not overridden by get_geocoder
swallow_exceptions == TRUE  \* RateLimiter default, not overridden by get_geocoder

(***************************************************************************)
(* Python values                                                           *)
(***************************************************************************)
None == [t |-> "None", v |-> <<>>]
NaN == [t |-> "float", v |-> <<>>]            \* what read_csv gives for an empty cell
PyStr(s) == [t |-> "str", v |-> s]
PyTuple(s) == [t |-> "tuple", v |-> s]
PyList(s) == [t |-> "list", v |-> s]
PyLocation(c) == [t |-> "Location", v |-> c]  \* geopy Location(latitude, longitude)

\* Python truth value: None is false, text/list/tuple are true when non-empty,
\* NaN and a geopy Location are true.
Truthy(x) ==
  CASE x.t = "None" -> FALSE
    [] x.t \in {"str", "list", "tuple"} -> Len(x.v) > 0
    [] OTHER -> TRUE

(***************************************************************************)
(* Text operations                                                         *)
(***************************************************************************)
Whitespace == {" ", "\n", "\t"}

Min(a, b) == IF a < b THEN a ELSE b
Max(a, b) == IF a > b THEN a ELSE b

\* str.replace(old, new): leftmost non-overlapping occurrences, old non-empty
RECURSIVE Replace(_, _, _)
Replace(s, old, new) ==
  IF Len(s) < Len(old) THEN s
  ELSE IF SubSeq(s, 1, Len(old)) = old
       THEN new \o Replace(SubSeq(s, Len(old) + 1, Len(s)), old, new)
       ELSE <<Head(s)>> \o Replace(Tail(s), old, new)

\* str.split(sep) for a one-character separator: always at least one piece
RECURSIVE Split(_, _)
Split(s, sep) ==
  IF \A i \in 1..Len(s) : s[i] # sep THEN <<s>>
  ELSE LET i == CHOOSE j \in 1..Len(s) :
                  s[j] = sep /\ \A m \in 1..(j - 1) : s[m] # sep
       IN <<SubSeq(s, 1, i - 1)>> \o Split(SubSeq(s, i + 1, Len(s)), sep)

\* str.strip()
RECURSIVE LStrip(_)
LStrip(s) == IF s # <<>> /\ Head(s) \in Whitespace THEN LStrip(Tail(s)) ELSE s

RECURSIVE RStrip(_)
RStrip(s) ==
  IF s # <<>> /\ s[Len(s)] \in Whitespace THEN RStrip(SubSeq(s, 1, Len(s) - 1)) ELSE s

Strip(s) == RStrip(LStrip(s))

\* sep.join(parts)
RECURSIVE Join(_, _)
Join(parts, sep) ==
  IF parts = <<>> THEN <<>>
  ELSE IF Len(parts) = 1 THEN parts[1]
  ELSE parts[1] \o <<sep>> \o Join(Tail(parts), sep)

(***************************************************************************)
(* Inputs: the Lokation cells of events.csv and the backend's answers      *)
(***************************************************************************)
Addr_a == <<"a">>
Addr_b_st == <<"b", " ", "s", "t">>
Addr_c_mf == <<"c", " ", "1", ".", "m", "f", ".">>
Addr_blank == <<" ">>
Addr_a_stb == <<"a", " ", "s", "t", "b">>      \* " st" inside a word, as in "Ny stationsvej"

\* n addresses joined by line breaks: "a", "a\nb st", "a\nb st\na", ...
Alternating(n) == Join([i \in 1..n |-> IF i % 2 = 1 THEN Addr_a ELSE Addr_b_st], "\n")

Lokations ==
  {NaN, PyStr(Addr_blank), PyStr(Addr_a \o <<"\n">>)}
    \cup {PyStr(Alternating(n)) : n \in 1..MaxAddresses}

Tables == UNION {[1..n -> Lokations] : n \in 0..MaxRows}

FileKinds == {"ok", "missing", "empty", "missing_column", "unreadable"}

InputFiles ==
  {[kind |-> "ok", rows |-> t] : t \in Tables}
    \cup {[kind |-> k, rows |-> <<>>] : k \in FileKinds \ {"ok"}}

\* The backend's (latitude, longitude) for a query it can match: one place
\* per query text, (0, 0) among them.
Coords(query) ==
  CASE query = <<"a">> -> <<56, 10>>
    [] query = <<"b">> -> <<0, 0>>
    [] OTHER -> <<57, 9>>

\* What one request for `query` can end in: a match, no match, a timeout,
\* another service error, or any other exception.
Outcomes(query) ==
  {[kind |-> "match", loc |-> Coords(query)]}
    \cup {[kind |-> k, loc |-> <<>>] :
            k \in {"nomatch", "timeout", "service_error", "other"}}

\* geopy's GeocoderTimedOut is a subclass of GeocoderServiceError
GeocoderServiceErrors == {"timeout", "service_error"}

NoExc == [type |-> "", in |-> ""]

VARIABLES
  events_csv,    \* the input file
  out_csv,       \* events_with_coordinates.csv
  df,            \* the DataFrame of __main__: a sequence of rows
  pc,            \* control position
  index,         \* row of the for loop of __main__ (1-based)
  address,       \* __main__'s list `address` of the current row
  k,             \* position of the address being looked up in `address`
  latitudes,     \* __main__'s accumulators of a multi-address row
  longitudes,
  addr,          \* argument the active fetch_coordinates call was given
  fc_address,    \* fetch_coordinates' local `address` after line 21 (None outside a call)
  geocode,       \* fetch_coordinates' local `geocode`: the RateLimiter it got from
                 \* get_geocoder and the retries used by the call in progress
  ret,           \* value returned by the last fetch_coordinates call
  exc,           \* exception that escaped, and the function it escaped from
  sinceRequest,  \* seconds since the last backend request (-1: none yet)
  gap,           \* seconds between the last two backend requests (-1: fewer than two)
  requests,      \* backend requests issued by the fetch_coordinates call that is
                 \* active or whose result the caller has not yet taken
  outcomes,      \* backend outcomes of this run: "unused", "timeouts" (every
                 \* request so far timed out) or "mixed"
  results,       \* per row, the values fetch_coordinates returned, in call order
  csv_columns,   \* header of events.csv: the raw column names, in file order
  df_columns,    \* df.columns of __main__
  out_columns,   \* header of events_with_coordinates.csv
  raw_csv,       \* load_data on its own: the file it is given
  cleaned_columns, \* load_data's list `cleaned_columns` (line 73)
  loaded,        \* the DataFrame load_data returned
  oracle,        \* repeated runs: the backend's fixed answer to each query
  first_out,     \* repeated runs: the output file the first run left
  run,           \* repeated runs: number of the run in progress
  event,         \* map consumers: the record of the output file being drawn
  view,          \* map consumers: which consumer drew it
  markers,       \* map consumers: the markers put on the map
  session_state, \* app: st.session_state of one browser session
  cached_len,    \* app: len(df) of the table load_data has cached
  page,          \* app: what the last run of main() rendered
  widgets,       \* app: the buttons and checkboxes that run rendered
  shown,         \* app: the index whose detail page that run rendered
  rendered_len   \* app: len(df) in that run

auxCols == <<csv_columns, df_columns, out_columns>>
auxLoad == <<raw_csv, cleaned_columns, loaded>>
auxRuns == <<oracle, first_out, run>>
auxRender == <<event, view, markers>>
auxUI == <<session_state, cached_len, page, widgets, shown, rendered_len>>

vars == <<events_csv, out_csv, df, pc, index, address, k, latitudes, longitudes,
          addr, fc_address, geocode, ret, exc, sinceRequest, gap, requests,
          outcomes, results, auxCols, auxLoad, auxRuns, auxRender, auxUI>>

mainVars == <<events_csv, out_csv, df, index, address, k, latitudes, longitudes,
              results>>

(***************************************************************************)
(* The rate-limited geocoder (get_geocoder and geopy's RateLimiter)        *)
(***************************************************************************)
\* Elapsed time e after d more seconds; -1 stands for "never happened".
Elapse(e, d) == IF e = -1 THEN -1 ELSE Min(e + d, min_delay_seconds)

\* get_geocoder(): preprocess.py builds a new Nominatim and a new RateLimiter
\* on every call; a new RateLimiter has no last call and no retries used.
get_geocoder == [last_call |-> -1, tries |-> 0]

\* RateLimiter: seconds to sleep before the next request may be sent
SleepBetween(limiter) ==
  IF limiter.last_call = -1 THEN 0
  ELSE Max(0, min_delay_seconds - limiter.last_call)

\* RateLimiter.__call__ on one backend outcome: a GeocoderServiceError is
\* retried max_retries times and then swallowed (None is returned), any
\* other exception is re-raised at once.
LimiterResult(limiter, o) ==
  CASE o.kind = "match" -> [do |-> "return", val |-> PyLocation(o.loc), e |-> ""]
    [] o.kind = "nomatch" -> [do |-> "return", val |-> None, e |-> ""]
    [] o.kind \in GeocoderServiceErrors ->
         IF limiter.tries < max_retries
         THEN [do |-> "retry", val |-> None, e |-> ""]
         ELSE IF swallow_exceptions
              THEN [do |-> "return", val |-> None, e |-> ""]
              ELSE [do |-> "raise", val |-> None, e |-> o.kind]
    [] OTHER -> [do |-> "raise", val |-> None, e |-> o.kind]

(***************************************************************************)
(* fetch_coordinates                                                       *)
(***************************************************************************)
\* line 21: address.replace(" 1.mf.", "").replace(" st", "")
NormalizeAddress(s) ==
  Replace(Replace(s, <<" ", "1", ".", "m", "f", ".">>, <<>>), <<" ", "s", "t">>, <<>>)

\* line 24: not isinstance(address, str) or not address.strip()
InvalidAddress(x) == x.t # "str" \/ ~Truthy(PyStr(Strip(x.v)))

\* lines 37-48: each except clause logs and then calls st.error; preprocess.py
\* never imports st, so the clause itself raises NameError.
ExceptHandler(e) ==
  [pc |-> "raised", ret |-> None,
   exc |-> [type |-> "NameError", in |-> "fetch_coordinates"]]

\* lines 30-36 and the except clauses, applied to what the limiter did
FetchResult(lr) ==
  IF lr.do = "raise" THEN ExceptHandler(lr.e)
  ELSE IF Truthy(lr.val)
       THEN [pc |-> "returned", ret |-> PyTuple(lr.val.v), exc |-> NoExc]
       ELSE [pc |-> "returned", ret |-> None, exc |-> NoExc]

\* lines 20-28: entry of fetch_coordinates up to get_geocoder()
FetchEnter ==
  /\ pc = "fetch"
  /\ IF addr.t # "str"
     THEN /\ pc' = "raised"
          /\ exc' = [type |-> "AttributeError", in |-> "fetch_coordinates"]
          /\ UNCHANGED <<fc_address, geocode, ret>>
     ELSE LET a == PyStr(NormalizeAddress(addr.v)) IN
          /\ exc' = NoExc
          /\ IF InvalidAddress(a)
             THEN /\ pc' = "returned"
                  /\ ret' = None
                  /\ UNCHANGED <<fc_address, geocode>>
             ELSE /\ pc' = "geocode"
                  /\ fc_address' = a
                  /\ geocode' = get_geocoder
                  /\ UNCHANGED ret
  /\ UNCHANGED <<mainVars, addr, sinceRequest, gap, requests, outcomes>>
  /\ UNCHANGED <<auxCols, auxLoad, auxRuns, auxRender, auxUI>>

\* line 30: one request of geocode(address, timeout=10) through the limiter,
\* the backend's outcome, and what fetch_coordinates does with it
Attempt(o, d) ==
  /\ pc = "geocode"
  /\ LET wait == SleepBetween(geocode)
         sent == Elapse(sinceRequest, wait)
         took == IF o.kind = "timeout" THEN geocode_timeout ELSE d
         lr == LimiterResult(geocode, o)
         pause == IF lr.do = "retry" THEN error_wait_seconds ELSE 0
         fr == FetchResult(lr)
     IN /\ gap' = IF sent = -1 THEN gap ELSE sent
        /\ sinceRequest' = Elapse(0, took + pause)
        /\ requests' = requests + 1
        /\ outcomes' = IF o.kind = "timeout" /\ outcomes # "mixed"
                       THEN "timeouts" ELSE "mixed"
        /\ IF lr.do = "retry"
           THEN /\ geocode' = [last_call |-> Elapse(0, took + pause),
                               tries |-> geocode.tries + 1]
                /\ UNCHANGED <<pc, ret, exc, fc_address>>
           ELSE \* the call ends and its locals with it
                /\ geocode' = get_geocoder
                /\ fc_address' = None
                /\ pc' = fr.pc
                /\ ret' = fr.ret
                /\ exc' = fr.exc
  /\ UNCHANGED <<mainVars, addr>>
  /\ UNCHANGED <<auxCols, auxLoad, auxRuns, auxRender, auxUI>>

\* a request to a backend that may answer anything, after any latency
GeocodeAttempt ==
  \E o \in Outcomes(fc_address.v), d \in 0..MaxLatency : Attempt(o, d)

(***************************************************************************)
(* load_data on a whole file: column cleaning, the required-column check   *)
(* and the parsing of 'Slut Tidspunkt'                                     *)
(***************************************************************************)
Range(f) == {f[i] : i \in DOMAIN f}

\* number of whitespace characters s has from position p on
RECURSIVE WsRun(_, _)
WsRun(s, p) == IF p <= Len(s) /\ s[p] \in Whitespace THEN 1 + WsRun(s, p + 1) ELSE 0

\* line 60: re.sub(r'\s*\[.*?\]\s*', '', col, flags=re.DOTALL): leftmost
\* matches, each from the whitespace before a "[" to the whitespace after
\* the first "]" that follows it
RECURSIVE RemoveBracketed(_)
RemoveBracketed(s) ==
  IF s = <<>> THEN <<>>
  ELSE LET j == 1 + WsRun(s, 1) IN
       IF j <= Len(s) /\ s[j] = "[" /\ \E m \in (j + 1)..Len(s) : s[m] = "]"
       THEN LET m == CHOOSE q \in (j + 1)..Len(s) :
                       s[q] = "]" /\ \A r \in (j + 1)..(q - 1) : s[r] # "]"
                e == m + 1 + WsRun(s, m + 1)
            IN RemoveBracketed(SubSeq(s, e, Len(s)))
       ELSE <<Head(s)>> \o RemoveBracketed(Tail(s))

\* line 68: re.sub(r'\s+', ' ', col)
RECURSIVE CollapseWhitespace(_)
CollapseWhitespace(s) ==
  IF s = <<>> THEN <<>>
  ELSE IF Head(s) \in Whitespace
       THEN <<" ">> \o CollapseWhitespace(SubSeq(s, 1 + WsRun(s, 1), Len(s)))
       ELSE <<Head(s)>> \o CollapseWhitespace(Tail(s))

Suffix_maks == <<"-", " ", "M", "a", "k", "s", " ", "e", "n", " ", "s", "æ", "t", "n", "i", "n", "g">>
Suffix_link == <<",", " ", "s", "k", "r", "i", "v", " ", "l", "i", "n", "k", "e", "t", " ", "h", "e", "r", ":">>

\* lines 58-70: the cleaning of one column name
CleanColumn(col) ==
  LET c1 == RemoveBracketed(col)
      c2 == Replace(Replace(c1, Suffix_maks, <<>>), Suffix_link, <<>>)
      c3 == Replace(c2, <<"\n">>, <<" ">>)
      c4 == CollapseWhitespace(c3)
  IN Strip(c4)

Col_Titel == <<"T", "i", "t", "e", "l", " ", "p", "å", " ", "d", "i", "t", " ", "a", "r", "r", "a", "n", "g", "e", "m", "e", "n", "t">>
Col_Arrangoer == <<"A", "r", "r", "a", "n", "g", "ø", "r">>
Col_Lokation == <<"L", "o", "k", "a", "t", "i", "o", "n">>
Col_Start == <<"S", "t", "a", "r", "t", " ", "T", "i", "d", "s", "p", "u", "n", "k", "t">>
Col_Slut == <<"S", "l", "u", "t", " ", "T", "i", "d", "s", "p", "u", "n", "k", "t">>
Col_Dato_dt == <<"D", "a", "t", "o", "_", "d", "t">>

\* required_cols as it would be with 'Arrangør' left out of the list
required_cols_short == <<Col_Titel, Col_Lokation, Col_Start, Col_Slut>>

\* line 77
required_cols == <<Col_Titel, Col_Arrangoer, Col_Lokation, Col_Start, Col_Slut>>

\* line 78
missing_cols(columns) ==
  {c \in Range(required_cols) : c \notin Range(columns)}

\* headers as the form export writes them, one per required column
RawRequired ==
  << <<"T", "i", "t", "e", "l", " ", "p", "å", " ", "d", "i", "t", "\n", "a", "r", "r", "a", "n", "g", "e", "m", "e", "n", "t">>,
     <<"A", "r", "r", "a", "n", "g", "ø", "r", " ", "[", "n", "a", "v", "n", "]">>,
     <<"L", "o", "k", "a", "t", "i", "o", "n", " ", "[", "e", "n", " ", "a", "d", "r", "e", "s", "s", "e", "\n", "p", "e", "r", " ", "l", "i", "n", "j", "e", "]", " ">>,
     <<"S", "t", "a", "r", "t", " ", "T", "i", "d", "s", "p", "u", "n", "k", "t">>,
     <<" ", "S", "l", "u", "t", " ", " ", "T", "i", "d", "s", "p", "u", "n", "k", "t">> >>

\* further headers of the export
RawExtra ==
  { <<"B", "e", "s", "k", "r", "i", "v", "e", "l", "s", "e", " ", "-", " ", "M", "a", "k", "s", " ", "e", "n", " ", "s", "æ", "t", "n", "i", "n", "g">>,
    <<"L", "i", "n", "k", ",", " ", "s", "k", "r", "i", "v", " ", "l", "i", "n", "k", "e", "t", " ", "h", "e", "r", ":">>,
    <<"M", "a", "i", "l", "a", "d", "r", "e", "s", "s", "e">>,
    <<"B", "e", "s", "k", "r", "i", "v", "e", "l", "s", "e", " ", "-", " ", "M", "a", "k", "s", "\n", "e", "n", " ", "s", "æ", "t", "n", "i", "n", "g">>,
    <<"P", "r", "i", "s", " ", "[", "k", "r", "]", " ", "[", "x", "]">>,
    <<"N", "o", "t", "e", " ", "]", "x", "[", " ">> }

(***************************************************************************)
(* pd.to_datetime(..., format='%d/%m/%Y %H.%M.%S', errors='coerce')        *)
(***************************************************************************)
Digits == <<"0", "1", "2", "3", "4", "5", "6", "7", "8", "9">>
IsDigit(c) == \E d \in 1..10 : Digits[d] = c
DigitVal(c) == (CHOOSE d \in 1..10 : Digits[d] = c) - 1

NaT == [t |-> "NaT", v |-> <<>>]
Timestamp(ts) == [t |-> "Timestamp", v |-> ts]   \* <<year, month, day, hour, minute, second>>

IsLeap(y) == (y % 4 = 0 /\ y % 100 # 0) \/ y % 400 = 0

DaysInMonth(y, m) ==
  IF m = 2 THEN (IF IsLeap(y) THEN 29 ELSE 28)
  ELSE IF m \in {4, 6, 9, 11} THEN 30 ELSE 31

\* a number of one or two digits at position p
NumAt(s, p) ==
  IF ~(p <= Len(s) /\ IsDigit(s[p])) THEN [ok |-> FALSE, n |-> 0, next |-> p]
  ELSE IF p + 1 <= Len(s) /\ IsDigit(s[p + 1])
       THEN [ok |-> TRUE, n |-> 10 * DigitVal(s[p]) + DigitVal(s[p + 1]), next |-> p + 2]
       ELSE [ok |-> TRUE, n |-> DigitVal(s[p]), next |-> p + 1]

\* %d also takes a blank followed by one digit
DayAt(s, p) ==
  IF p + 1 <= Len(s) /\ s[p] = " " /\ IsDigit(s[p + 1]) /\ s[p + 1] # "0"
  THEN [ok |-> TRUE, n |-> DigitVal(s[p + 1]), next |-> p + 2]
  ELSE NumAt(s, p)

\* %Y: exactly four digits
YearAt(s, p) ==
  IF p + 3 <= Len(s) /\ \A i \in p..(p + 3) : IsDigit(s[i])
  THEN [ok |-> TRUE,
        n |-> 1000 * DigitVal(s[p]) + 100 * DigitVal(s[p + 1])
                + 10 * DigitVal(s[p + 2]) + DigitVal(s[p + 3]),
        next |-> p + 4]
  ELSE [ok |-> FALSE, n |-> 0, next |-> p]

LitAt(s, p, c) == p <= Len(s) /\ s[p] = c

\* ParseDate as it would be with the format '%m/%d/%Y %H.%M.%S'
ParseDate_monthFirst(cell) ==
  IF cell.t # "str" THEN NaT
  ELSE LET s == cell.v
           mo == NumAt(s, 1)
           d == DayAt(s, mo.next + 1)
           y == YearAt(s, d.next + 1)
           ws == WsRun(s, y.next)
           h == NumAt(s, y.next + ws)
           mi == NumAt(s, h.next + 1)
           se == NumAt(s, mi.next + 1)
       IN IF /\ mo.ok /\ LitAt(s, mo.next, "/")
             /\ d.ok /\ LitAt(s, d.next, "/")
             /\ y.ok /\ ws >= 1
             /\ h.ok /\ LitAt(s, h.next, ".")
             /\ mi.ok /\ LitAt(s, mi.next, ".")
             /\ se.ok /\ se.next = Len(s) + 1
             /\ mo.n \in 1..12 /\ d.n \in 1..DaysInMonth(y.n, mo.n)
             /\ h.n <= 23 /\ mi.n <= 59 /\ se.n <= 59
          THEN Timestamp(<<y.n, mo.n, d.n, h.n, mi.n, se.n>>)
          ELSE NaT

\* line 85 on one cell: the timestamp the text spells in the format
\* '%d/%m/%Y %H.%M.%S', NaT for an empty cell or any other text
ParseDate(cell) ==
  IF cell.t # "str" THEN NaT
  ELSE LET s == cell.v
           d == DayAt(s, 1)
           mo == NumAt(s, d.next + 1)
           y == YearAt(s, mo.next + 1)
           ws == WsRun(s, y.next)
           h == NumAt(s, y.next + ws)
           mi == NumAt(s, h.next + 1)
           se == NumAt(s, mi.next + 1)
       IN IF /\ d.ok /\ LitAt(s, d.next, "/")
             /\ mo.ok /\ LitAt(s, mo.next, "/")
             /\ y.ok /\ ws >= 1
             /\ h.ok /\ LitAt(s, h.next, ".")
             /\ mi.ok /\ LitAt(s, mi.next, ".")
             /\ se.ok /\ se.next = Len(s) + 1
             /\ mo.n \in 1..12 /\ d.n \in 1..DaysInMonth(y.n, mo.n)
             /\ h.n <= 23 /\ mi.n <= 59 /\ se.n <= 59
          THEN Timestamp(<<y.n, mo.n, d.n, h.n, mi.n, se.n>>)
          ELSE NaT

\* the text DD/MM/YYYY HH.MM.SS of six numbers
Two(n) == <<Digits[(n \div 10) + 1], Digits[(n % 10) + 1]>>
Four(n) == Two(n \div 100) \o Two(n % 100)
FormatDate(ts) ==
  PyStr(Two(ts[3]) \o <<"/">> \o Two(ts[2]) \o <<"/">> \o Four(ts[1]) \o <<" ">>
          \o Two(ts[4]) \o <<".">> \o Two(ts[5]) \o <<".">> \o Two(ts[6]))

\* sample end times: real ones, and ones no calendar or clock has
Stamps ==
  { <<2025, 5, 31, 18, 0, 0>>, <<2024, 2, 29, 9, 5, 7>>,
    <<2025, 2, 29, 10, 0, 0>>, <<2025, 13, 1, 10, 0, 0>>, <<2025, 5, 31, 24, 0, 0>> }

ShortDate == PyStr(<<"1", "/", "6", "/", "2", "0", "2", "5", " ", "9", ".", "3", "0", ".", "0", "0">>)
DateOnly == PyStr(<<"3", "1", "/", "0", "5", "/", "2", "0", "2", "5">>)

DateCells == {FormatDate(ts) : ts \in Stamps} \cup {NaN, PyStr(<<>>), ShortDate, DateOnly}

EmptyFrame == [columns |-> <<>>, rows |-> <<>>]       \* pd.DataFrame()

\* lines 52-98 on a file [kind, columns, cells]: cells are the texts of the
\* 'Slut Tidspunkt' column, one per row
LoadTable(file) ==
  LET cleaned == [i \in 1..Len(file.columns) |-> CleanColumn(file.columns[i])] IN
  IF file.kind # "ok" \/ missing_cols(cleaned) # {} THEN EmptyFrame
  ELSE [columns |-> Append(cleaned, Col_Dato_dt),
        rows |-> [i \in 1..Len(file.cells) |->
                    [Slut |-> file.cells[i],
                     Dato_dt |-> IF Col_Slut \in Range(cleaned)
                                 THEN ParseDate(file.cells[i])
                                 ELSE NaT]]]      \* line 87

\* the raw header without the required columns numbered in `absent`, with
\* the further headers of `extra` after it
RECURSIVE HeaderWithout(_, _)
HeaderWithout(absent, i) ==
  IF i > Len(RawRequired) THEN <<>>
  ELSE (IF i \in absent THEN <<>> ELSE <<RawRequired[i]>>) \o HeaderWithout(absent, i + 1)

RawFiles ==
  {[kind |-> "ok", columns |-> HeaderWithout(absent, 1) \o extra, cells |-> cells] :
      absent \in SUBSET (1..Len(RawRequired)),
      extra \in {<<>>} \cup {<<h>> : h \in RawExtra},
      cells \in UNION {[1..n -> DateCells] : n \in 0..MaxRows}}
    \cup {[kind |-> kd, columns |-> <<>>, cells |-> <<>>] :
            kd \in {"missing", "empty", "unreadable"}}

(***************************************************************************)
(* The columns of the table in __main__                                    *)
(***************************************************************************)
Col_Mailadresse == <<"M", "a", "i", "l", "a", "d", "r", "e", "s", "s", "e">>
Col_Kolonne16 == <<"K", "o", "l", "o", "n", "n", "e", " ", "1", "6">>

\* the drop list of line 104 as it would be without 'Kolonne 16'
pii_columns_mailOnly == <<Col_Mailadresse>>

\* line 104: the columns dropped
pii_columns == <<Col_Mailadresse, Col_Kolonne16>>

\* DataFrame.drop(columns=names, errors=errors) on the column names
drop(columns, names, errors) ==
  IF errors = "raise" /\ \E n \in Range(names) : n \notin Range(columns)
  THEN [ok |-> FALSE, columns |-> columns]
  ELSE [ok |-> TRUE, columns |-> SelectSeq(columns, LAMBDA c : c \notin Range(names))]

\* lines 107-110: the columns __main__ adds
CoordinateColumns ==
  << <<"L", "a", "t", "i", "t", "u", "d", "e">>, <<"L", "o", "n", "g", "i", "t", "u", "d", "e">>, <<"L", "a", "t", "i", "t", "u", "d", "e", "_", "L", "i", "s", "t">>, <<"L", "o", "n", "g", "i", "t", "u", "d", "e", "_", "L", "i", "s", "t">> >>

\* the column names of what load_data returns for a file with this header
LoadedColumns(file, header) ==
  IF file.kind = "ok"
  THEN Append([i \in 1..Len(header) |-> CleanColumn(header[i])], Col_Dato_dt)
  ELSE <<>>

\* the header of the form export, with both free-text contact columns
ExportHeader == RawRequired \o <<Col_Mailadresse, Col_Kolonne16>>

\* headers with and without the contact columns
PIIHeaders ==
  {RawRequired \o extra :
     extra \in {<<>>, <<Col_Mailadresse>>, <<Col_Kolonne16>>,
                <<Col_Mailadresse, Col_Kolonne16>>,
                << <<"M", "a", "i", "l", "a", "d", "r", "e", "s", "s", "e", " ", "[", "v", "i", "s", "e", "s", " ", "i", "k", "k", "e", "]">>, <<"L", "i", "n", "k", ",", " ", "s", "k", "r", "i", "v", " ", "l", "i", "n", "k", "e", "t", " ", "h", "e", "r", ":">> >>}}

(***************************************************************************)
(* load_data and __main__                                                  *)
(***************************************************************************)
\* load_data: the Lokation column of the table read, or the empty DataFrame
\* when the file is missing, empty, lacks a required column or cannot be read
load_data(file) == IF file.kind = "ok" THEN file.rows ELSE <<>>

\* lines 107-110: the four coordinate columns start as None
NewRow(cell) ==
  [Lokation |-> cell, Latitude |-> None, Longitude |-> None,
   Latitude_List |-> None, Longitude_List |-> None]

\* StoreSingle as it would be if the list columns were filled for a single address
StoreSingle_withLists(row, coordinates) ==
  [row EXCEPT !.Latitude = [t |-> "float", v |-> <<coordinates.v[1]>>],
              !.Longitude = [t |-> "float", v |-> <<coordinates.v[2]>>],
              !.Latitude_List = PyList(<<coordinates.v[1]>>),
              !.Longitude_List = PyList(<<coordinates.v[2]>>)]

\* lines 117-122
StoreSingle(row, coordinates) ==
  [row EXCEPT !.Latitude = [t |-> "float", v |-> <<coordinates.v[1]>>],
              !.Longitude = [t |-> "float", v |-> <<coordinates.v[2]>>],
              !.Latitude_List = None,
              !.Longitude_List = None]

\* AppendCoordinate as it would be if a failed lookup left a placeholder
AppendCoordinate_placeholder(acc, coordinates, i) ==
  IF Truthy(coordinates) THEN Append(acc, coordinates.v[i]) ELSE Append(acc, -1)

\* lines 130-133: append component i of a truthy result, skip a falsy one
AppendCoordinate(acc, coordinates, i) ==
  IF Truthy(coordinates) THEN Append(acc, coordinates.v[i]) ELSE acc

\* StoreLists as it would be without the test of line 137
StoreLists_unguarded(row, lats, lons) ==
  [row EXCEPT !.Latitude_List = PyList(lats), !.Longitude_List = PyList(lons)]

\* StoreLists as it would be if it also filled the single pair from the first
\* resolved address
StoreLists_withSingle(row, lats, lons) ==
  IF Truthy(PyList(lats)) /\ Truthy(PyList(lons))
  THEN [row EXCEPT !.Latitude_List = PyList(lats), !.Longitude_List = PyList(lons),
                   !.Latitude = [t |-> "float", v |-> <<lats[1]>>],
                   !.Longitude = [t |-> "float", v |-> <<lons[1]>>]]
  ELSE row

\* lines 137-140
StoreLists(row, lats, lons) ==
  IF Truthy(PyList(lats)) /\ Truthy(PyList(lons))
  THEN [row EXCEPT !.Latitude_List = PyList(lats), !.Longitude_List = PyList(lons)]
  ELSE row

\* lines 101-110
LoadData ==
  /\ pc = "main"
  /\ LET cells == load_data(events_csv)
         kept == drop(LoadedColumns(events_csv, csv_columns), pii_columns, "ignore")
     IN IF kept.ok
        THEN /\ df' = [i \in 1..Len(cells) |-> NewRow(cells[i])]
             /\ df_columns' = kept.columns \o CoordinateColumns
             /\ results' = [i \in 1..Len(cells) |-> <<>>]
             /\ pc' = "row"
             /\ UNCHANGED exc
        ELSE /\ pc' = "raised"
             /\ exc' = [type |-> "KeyError", in |-> "__main__"]
             /\ UNCHANGED <<df, df_columns, results>>
  /\ index' = 1
  /\ UNCHANGED <<events_csv, out_csv, address, k, latitudes, longitudes, addr,
                 fc_address, geocode, ret, sinceRequest, gap, requests,
                 outcomes, csv_columns, out_columns>>
  /\ UNCHANGED <<auxLoad, auxRuns, auxRender, auxUI>>

\* BeginRow as it would be if the addresses were taken from the right
BeginRow_fromRight ==
  /\ pc = "row"
  /\ index <= Len(df)
  /\ LET cell == df[index].Lokation IN
     IF cell.t # "str"
     THEN /\ pc' = "raised"
          /\ exc' = [type |-> "AttributeError", in |-> "__main__"]
          /\ UNCHANGED <<address, k, latitudes, longitudes, addr>>
     ELSE LET split == Split(cell.v, "\n")
              parts == [i \in 1..Len(split) |-> split[Len(split) + 1 - i]]
          IN /\ address' = parts
             /\ k' = 1
             /\ IF Len(parts) = 1
                THEN UNCHANGED <<latitudes, longitudes>>
                ELSE latitudes' = <<>> /\ longitudes' = <<>>
             /\ addr' = PyStr(parts[1])
             /\ pc' = "fetch"
             /\ UNCHANGED exc
  /\ UNCHANGED <<events_csv, out_csv, df, index, fc_address, geocode, ret,
                 sinceRequest, gap, requests, outcomes, results>>
  /\ UNCHANGED <<auxCols, auxLoad, auxRuns, auxRender, auxUI>>

\* lines 112-115 and 126-129: next row, split its Lokation, call
\* fetch_coordinates on the first address
BeginRow ==
  /\ pc = "row"
  /\ index <= Len(df)
  /\ LET cell == df[index].Lokation IN
     IF cell.t # "str"
     THEN /\ pc' = "raised"
          /\ exc' = [type |-> "AttributeError", in |-> "__main__"]
          /\ UNCHANGED <<address, k, latitudes, longitudes, addr>>
     ELSE LET parts == Split(cell.v, "\n") IN
          /\ address' = parts
          /\ k' = 1
          /\ IF Len(parts) = 1
             THEN UNCHANGED <<latitudes, longitudes>>
             ELSE latitudes' = <<>> /\ longitudes' = <<>>
          /\ addr' = PyStr(parts[1])
          /\ pc' = "fetch"
          /\ UNCHANGED exc
  /\ UNCHANGED <<events_csv, out_csv, df, index, fc_address, geocode, ret,
                 sinceRequest, gap, requests, outcomes, results>>
  /\ UNCHANGED <<auxCols, auxLoad, auxRuns, auxRender, auxUI>>

\* lines 116-124 and 130-142: __main__ takes the value fetch_coordinates
\* returned, and after the last address of the row stores the row's result
StoreResult ==
  /\ pc = "returned"
  /\ results' = [results EXCEPT ![index] = Append(@, ret)]
  /\ requests' = 0
  /\ IF Len(address) = 1
     THEN /\ df' = [df EXCEPT ![index] = IF Truthy(ret) THEN StoreSingle(@, ret) ELSE @]
          /\ index' = index + 1
          /\ pc' = "row"
          /\ UNCHANGED <<k, latitudes, longitudes, addr>>
     ELSE LET lats == AppendCoordinate(latitudes, ret, 1)
              lons == AppendCoordinate(longitudes, ret, 2)
          IN /\ latitudes' = lats
             /\ longitudes' = lons
             /\ IF k = Len(address)
                THEN /\ df' = [df EXCEPT ![index] = StoreLists(@, lats, lons)]
                     /\ index' = index + 1
                     /\ pc' = "row"
                     /\ UNCHANGED <<k, addr>>
                ELSE /\ k' = k + 1
                     /\ addr' = PyStr(address[k + 1])
                     /\ pc' = "fetch"
                     /\ UNCHANGED <<df, index>>
  /\ UNCHANGED <<events_csv, out_csv, address, fc_address, geocode, ret, exc,
                 sinceRequest, gap, outcomes>>
  /\ UNCHANGED <<auxCols, auxLoad, auxRuns, auxRender, auxUI>>

\* to_csv as it would be if it appended to the file already there
to_csv_append(old, d) == [t |-> "written", rows |-> old.rows \o d]

\* line 145: df.to_csv(path, index=False) replaces the file by the table
to_csv(old, d) == [t |-> "written", rows |-> d]

\* ToCsv as it would be with line 145 indented into the for loop
ToCsv_insideLoop ==
  /\ pc = "row"
  /\ out_csv' = to_csv(out_csv, df)
  /\ pc' = "done"
  /\ UNCHANGED <<events_csv, df, index, address, k, latitudes, longitudes, addr,
                 fc_address, geocode, ret, exc, sinceRequest, gap, requests,
                 outcomes, results, auxCols, auxLoad, auxRuns, auxRender, auxUI>>

\* line 145: df.to_csv("events_with_coordinates.csv") after the loop
ToCsv ==
  /\ pc = "row"
  /\ index > Len(df)
  /\ out_csv' = to_csv(out_csv, df)
  /\ out_columns' = df_columns
  /\ pc' = "done"
  /\ UNCHANGED <<events_csv, df, index, address, k, latitudes, longitudes, addr,
                 fc_address, geocode, ret, exc, sinceRequest, gap, requests,
                 outcomes, results, csv_columns, df_columns>>
  /\ UNCHANGED <<auxLoad, auxRuns, auxRender, auxUI>>

\* the app before a browser session exists
UIIdle ==
  /\ session_state = [selected_event_index |-> None, show_full_map |-> FALSE,
                      scroll_to_top |-> FALSE, show_details |-> FALSE]
  /\ cached_len = 0
  /\ page = ""
  /\ widgets = {}
  /\ shown = None
  /\ rendered_len = 0

\* the variables of the other specifications, at rest
AuxIdle ==
  /\ csv_columns = ExportHeader
  /\ df_columns = <<>>
  /\ out_columns = <<>>
  /\ raw_csv = [columns |-> <<>>, cells |-> <<>>]
  /\ cleaned_columns = <<>>
  /\ loaded = [columns |-> <<>>, rows |-> <<>>]
  /\ oracle = <<>>
  /\ first_out = [t |-> "absent", rows |-> <<>>]
  /\ run = 1
  /\ event = None
  /\ view = ""
  /\ markers = <<>>
  /\ UIIdle

NoFile == [t |-> "absent", rows |-> <<>>]
StaleFile == [t |-> "stale", rows |-> <<>>]   \* the file an earlier run left

\* the state when `python preprocess.py` starts
Init ==
  /\ events_csv \in InputFiles
  /\ out_csv = StaleFile
  /\ df = <<>>
  /\ pc = "main"
  /\ index = 1
  /\ address = <<>>
  /\ k = 1
  /\ latitudes = <<>>
  /\ longitudes = <<>>
  /\ addr = None
  /\ fc_address = None
  /\ geocode = get_geocoder
  /\ ret = None
  /\ exc = NoExc
  /\ sinceRequest = -1
  /\ gap = -1
  /\ requests = 0
  /\ outcomes = "unused"
  /\ results = <<>>
  /\ AuxIdle

Next == LoadData \/ BeginRow \/ FetchEnter \/ GeocodeAttempt \/ StoreResult \/ ToCsv

Spec == Init /\ [][Next]_vars

\* The script is one thread that is never blocked for good: every sleep and
\* every backend request (timeout=10) ends, so an enabled step is taken.
FairSpec == Spec /\ WF_vars(Next)

\* under FairSpec every run of the script ends, in to_csv or in an exception
Terminates == <>(pc \in {"done", "raised"})

(***************************************************************************)
(* fetch_coordinates called on its own, with any argument, any number of   *)
(* times (app.py imports it from preprocess)                               *)
(***************************************************************************)
Arguments ==
  {None, NaN, PyStr(<<>>), PyStr(<<" ", " ">>), PyStr(Addr_blank), PyStr(Addr_a),
   PyStr(Addr_b_st), PyStr(Addr_c_mf), PyStr(Addr_a_stb)}

CallFetch ==
  /\ pc \in {"idle", "returned", "raised"}
  /\ \E x \in Arguments : addr' = x
  /\ pc' = "fetch"
  /\ exc' = NoExc
  /\ requests' = 0
  /\ UNCHANGED <<mainVars, fc_address, geocode, ret, sinceRequest, gap, outcomes>>
  /\ UNCHANGED <<auxCols, auxLoad, auxRuns, auxRender, auxUI>>

InitCall ==
  /\ events_csv = [kind |-> "missing", rows |-> <<>>]
  /\ out_csv = NoFile
  /\ df = <<>>
  /\ pc = "idle"
  /\ index = 1
  /\ address = <<>>
  /\ k = 1
  /\ latitudes = <<>>
  /\ longitudes = <<>>
  /\ addr = None
  /\ fc_address = None
  /\ geocode = get_geocoder
  /\ ret = None
  /\ exc = NoExc
  /\ sinceRequest = -1
  /\ gap = -1
  /\ requests = 0
  /\ outcomes = "unused"
  /\ results = <<>>
  /\ AuxIdle

NextCall == CallFetch \/ FetchEnter \/ GeocodeAttempt

SpecCall == InitCall /\ [][NextCall]_vars

(***************************************************************************)
(* Properties                                                              *)
(***************************************************************************)
IsNull(x) == x.t = "None"

\* rows whose iteration of the for loop has ended
Processed(r) == r < index

HasText(r) == df[r].Lokation.t = "str"

NumAddresses(r) == Len(Split(df[r].Lokation.v, "\n"))

AllNull(row) ==
  /\ IsNull(row.Latitude)
  /\ IsNull(row.Longitude)
  /\ IsNull(row.Latitude_List)
  /\ IsNull(row.Longitude_List)

\* component i of the results that are coordinate pairs, in call order
RECURSIVE Resolved(_, _)
Resolved(rs, i) ==
  IF rs = <<>> THEN <<>>
  ELSE IF Truthy(Head(rs)) THEN <<Head(rs).v[i]>> \o Resolved(Tail(rs), i)
  ELSE Resolved(Tail(rs), i)

\* C1: no failure escapes fetch_coordinates: whatever the backend does with an
\* address taken from a row, the call returns None or a pair and the batch
\* goes on; no exception leaves fetch_coordinates.
C1_NoFailureEscapes ==
  /\ ~(pc = "raised" /\ exc.in = "fetch_coordinates")
  /\ pc = "returned" => (IsNull(ret) \/ (ret.t = "tuple" /\ Len(ret.v) = 2))

\* C2: fetch_coordinates called with None, a non-text value, the empty string
\* or a whitespace-only string returns None and sends nothing to the backend.
C2_InvalidArgumentReturnsNone ==
  (pc \in {"returned", "raised"} /\ InvalidAddress(addr))
    => (pc = "returned" /\ IsNull(ret) /\ requests = 0)

C4_MultiAddressLists ==
  \A r \in 1..Len(df) :
    (HasText(r) /\ NumAddresses(r) > 1) =>
      /\ ~(pc = "raised" /\ index = r)
      /\ Processed(r) =>
           IF Resolved(results[r], 1) = <<>>
           THEN IsNull(df[r].Latitude_List) /\ IsNull(df[r].Longitude_List)
           ELSE /\ df[r].Latitude_List = PyList(Resolved(results[r], 1))
                /\ df[r].Longitude_List = PyList(Resolved(results[r], 2))

\* C5: for a Location with exactly one address, a resolved lookup leaves the
\* record with the returned Latitude and Longitude and with null lists; a
\* failed lookup leaves all four fields null.
C5_SingleAddress ==
  \A r \in 1..Len(df) :
    (HasText(r) /\ NumAddresses(r) = 1) =>
      IF Processed(r) /\ Truthy(results[r][1])
      THEN /\ df[r].Latitude = [t |-> "float", v |-> <<results[r][1].v[1]>>]
           /\ df[r].Longitude = [t |-> "float", v |-> <<results[r][1].v[2]>>]
           /\ IsNull(df[r].Latitude_List)
           /\ IsNull(df[r].Longitude_List)
      ELSE AllNull(df[r])

C5_Witness ==
  /\ \E r \in 1..Len(df) :
       HasText(r) /\ NumAddresses(r) = 1 /\ Processed(r) /\ Truthy(results[r][1])
  /\ \E r \in 1..Len(df) :
       /\ HasText(r) /\ NumAddresses(r) = 1 /\ Processed(r)
       /\ ~Truthy(results[r][1]) /\ outcomes = "mixed"

\* the coordinate fields of one record are consistent with its arity
ArityConsistent(row) ==
  /\ ~( (~IsNull(row.Latitude) \/ ~IsNull(row.Longitude))
        /\ (~IsNull(row.Latitude_List) \/ ~IsNull(row.Longitude_List)) )
  /\ row.Lokation.t = "str" =>
       IF Len(Split(row.Lokation.v, "\n")) = 1
       THEN IsNull(row.Latitude_List) /\ IsNull(row.Longitude_List)
       ELSE IsNull(row.Latitude) /\ IsNull(row.Longitude)

\* C6: in every state of the run and in the output file, no record has both
\* the single pair and the list pair populated, and the pair that does not
\* match the record's number of addresses is null.
C6_NeverBothPopulated ==
  /\ \A r \in 1..Len(df) : ArityConsistent(df[r])
  /\ out_csv.t = "written" => \A r \in 1..Len(out_csv.rows) : ArityConsistent(out_csv.rows[r])

C6_Witness ==
  /\ out_csv.t = "written"
  /\ \E r \in 1..Len(out_csv.rows) : ~IsNull(out_csv.rows[r].Latitude)
  /\ \E r \in 1..Len(out_csv.rows) : ~IsNull(out_csv.rows[r].Latitude_List)

\* C7 as stated: a processed record has as many coordinates as its Location
\* has addresses (1 address: one pair; N addresses: lists of N elements).
C7_CoordinatesMatchAddresses ==
  \A r \in 1..Len(df) :
    (HasText(r) /\ Processed(r)) =>
      IF NumAddresses(r) = 1
      THEN ~IsNull(df[r].Latitude) /\ ~IsNull(df[r].Longitude)
      ELSE /\ df[r].Latitude_List.t = "list"
           /\ df[r].Longitude_List.t = "list"
           /\ Len(df[r].Latitude_List.v) = NumAddresses(r)
           /\ Len(df[r].Longitude_List.v) = NumAddresses(r)

NumResolved(r) == Len(Resolved(results[r], 1))

\* C7 amended: a processed record has as many coordinates as it has addresses
\* whose lookup succeeded: one pair iff the single address resolved; for N
\* addresses, lists of as many elements as addresses resolved (at most N),
\* and null lists when none resolved.
C7_CoordinatesMatchResolved ==
  \A r \in 1..Len(df) :
    (HasText(r) /\ Processed(r)) =>
      LET n == NumAddresses(r)
          m == NumResolved(r)
      IN /\ m <= n
         /\ IF n = 1
            THEN /\ IsNull(df[r].Latitude) <=> m = 0
                 /\ IsNull(df[r].Longitude) <=> m = 0
            ELSE IF m = 0
                 THEN IsNull(df[r].Latitude_List) /\ IsNull(df[r].Longitude_List)
                 ELSE /\ df[r].Latitude_List.t = "list"
                      /\ df[r].Longitude_List.t = "list"
                      /\ Len(df[r].Latitude_List.v) = m
                      /\ Len(df[r].Longitude_List.v) = m

C7_Witness ==
  \E r \in 1..Len(df) :
    /\ HasText(r) /\ Processed(r)
    /\ NumAddresses(r) = 3
    /\ NumResolved(r) = 2
    /\ ~Truthy(results[r][2])
    /\ Len(df[r].Latitude_List.v) = 2

\* C8: at least min_delay_seconds pass between any two consecutive backend
\* requests of a run, across addresses and rows.
C8_MinDelayBetweenRequests == gap = -1 \/ gap >= min_delay_seconds

\* C9: fetch_coordinates sends exactly one backend request for a valid
\* address; a request that times out is not sent again.
C9_OneRequestPerAddress ==
  /\ requests <= 1
  /\ (pc = "returned" /\ addr.t = "str"
        /\ ~InvalidAddress(PyStr(NormalizeAddress(addr.v)))) => requests = 1

\* C10: when load_data yields an empty table because the input file is
\* missing, empty, lacks a required field or cannot be loaded, the run does
\* not write the output file.
C10_EmptyTableWritesNothing ==
  (events_csv.kind # "ok" /\ Len(load_data(events_csv)) = 0) => out_csv.t # "written"

\* load_data(file_path) as one step
LoadCsv ==
  /\ pc = "load"
  /\ cleaned_columns' =
       IF raw_csv.kind = "ok"
       THEN [i \in 1..Len(raw_csv.columns) |-> CleanColumn(raw_csv.columns[i])]
       ELSE <<>>
  /\ loaded' = LoadTable(raw_csv)
  /\ pc' = "loaded"
  /\ UNCHANGED <<mainVars, addr, fc_address, geocode, ret, exc, sinceRequest, gap,
                 requests, outcomes, raw_csv, auxCols, auxRuns, auxRender, auxUI>>

InitLoad ==
  /\ events_csv = [kind |-> "missing", rows |-> <<>>]
  /\ out_csv = NoFile
  /\ df = <<>>
  /\ pc = "load"
  /\ index = 1
  /\ address = <<>>
  /\ k = 1
  /\ latitudes = <<>>
  /\ longitudes = <<>>
  /\ addr = None
  /\ fc_address = None
  /\ geocode = get_geocoder
  /\ ret = None
  /\ exc = NoExc
  /\ sinceRequest = -1
  /\ gap = -1
  /\ requests = 0
  /\ outcomes = "unused"
  /\ results = <<>>
  /\ csv_columns = <<>>
  /\ df_columns = <<>>
  /\ out_columns = <<>>
  /\ raw_csv \in RawFiles
  /\ cleaned_columns = <<>>
  /\ loaded = EmptyFrame
  /\ oracle = <<>>
  /\ first_out = NoFile
  /\ run = 1
  /\ event = None
  /\ view = ""
  /\ markers = <<>>
  /\ UIIdle

NextLoad == LoadCsv

SpecLoad == InitLoad /\ [][NextLoad]_vars

(***************************************************************************)
(* Properties of load_data                                                 *)
(***************************************************************************)
\* one text occurs inside another
Contains(s, pat) ==
  \E i \in 1..(Len(s) - Len(pat) + 1) : SubSeq(s, i, i + Len(pat) - 1) = pat

\* the five fields every event must have
RequiredFields == <<Col_Titel, Col_Arrangoer, Col_Lokation, Col_Start, Col_Slut>>

\* the required fields that no cleaned column name equals
AbsentRequired ==
  {i \in 1..Len(RequiredFields) :
     \A j \in 1..Len(cleaned_columns) : cleaned_columns[j] # RequiredFields[i]}

\* C11: whenever a required field is absent from the cleaned column names,
\* load_data returns the empty table: no column and no row of the file is
\* processed.
C11_MissingRequiredGivesEmpty ==
  (pc = "loaded" /\ raw_csv.kind = "ok" /\ AbsentRequired # {})
    => (loaded = EmptyFrame /\ Len(loaded.rows) = 0)

\* a file with rows that lacks exactly the required field 'Arrangør' was rejected
C11_Witness ==
  /\ pc = "loaded"
  /\ raw_csv.kind = "ok"
  /\ AbsentRequired = {2}
  /\ Len(raw_csv.cells) > 0
  /\ loaded = EmptyFrame

\* what C14 asks of one cleaned column name
CleanName(c) ==
  /\ ~ \E i, j \in 1..Len(c) : i < j /\ c[i] = "[" /\ c[j] = "]"
  /\ ~ \E i \in 1..Len(c) : c[i] = "\n"
  /\ ~ Contains(c, Suffix_maks)
  /\ ~ Contains(c, Suffix_link)
  /\ ~ \E i \in 1..(Len(c) - 1) : c[i] \in Whitespace /\ c[i + 1] \in Whitespace
  /\ (c # <<>> => (c[1] \notin Whitespace /\ c[Len(c)] \notin Whitespace))

\* C14: every column name load_data produces has no bracket-delimited
\* substring, no newline, neither suffix phrase, no run of two or more
\* whitespace characters and no leading or trailing whitespace.
C14_CleanedNamesClean ==
  pc = "loaded" => \A i \in 1..Len(cleaned_columns) : CleanName(cleaned_columns[i])

\* the sample end times that a calendar and a clock have
IsValidStamp(ts) ==
  /\ ts[2] \in 1..12
  /\ ts[3] \in 1..DaysInMonth(ts[1], ts[2])
  /\ ts[4] \in 0..23
  /\ ts[5] \in 0..59
  /\ ts[6] \in 0..59

\* the timestamp a cell stands for, read off the sample it was written from
ExpectedDate(cell) ==
  IF cell.t # "str" THEN NaT
  ELSE IF \E ts \in Stamps : IsValidStamp(ts) /\ cell = FormatDate(ts)
       THEN Timestamp(CHOOSE ts \in Stamps : IsValidStamp(ts) /\ cell = FormatDate(ts))
       ELSE IF cell = ShortDate THEN Timestamp(<<2025, 6, 1, 9, 30, 0>>)
            ELSE NaT

\* C16: when the schema is complete load_data returns one row per input row,
\* and each row's Dato_dt is the timestamp its 'Slut Tidspunkt' spells as
\* DD/MM/YYYY HH.MM.SS, or null when the text spells none.
C16_DateParsingKeepsRows ==
  (pc = "loaded" /\ raw_csv.kind = "ok" /\ AbsentRequired = {})
    => /\ Len(loaded.rows) = Len(raw_csv.cells)
       /\ \A i \in 1..Len(raw_csv.cells) :
            /\ loaded.rows[i].Slut = raw_csv.cells[i]
            /\ loaded.rows[i].Dato_dt = ExpectedDate(raw_csv.cells[i])

\* a loaded table holding a row with a parsed end time and a row whose
\* text was unparseable
C16_Witness ==
  /\ pc = "loaded"
  /\ raw_csv.kind = "ok"
  /\ AbsentRequired = {}
  /\ \E i, j \in 1..Len(loaded.rows) :
       /\ loaded.rows[i].Dato_dt.t = "Timestamp"
       /\ raw_csv.cells[j].t = "str"
       /\ raw_csv.cells[j].v # <<>>
       /\ loaded.rows[j].Dato_dt = NaT

(***************************************************************************)
(* Properties of the batch run's output file                               *)
(***************************************************************************)
\* C12: the output file of the run exists exactly when the run has ended
\* after the last row; it then holds every row of the table, and at every
\* earlier point, and after a crash in any row, the run has written nothing.
C12_OutputWrittenOnceAtEnd ==
  /\ (out_csv.t = "written") <=> (pc = "done")
  /\ pc = "done" => (index = Len(df) + 1 /\ out_csv.rows = df)
  /\ pc # "done" => out_csv = StaleFile

\* a run over two rows ended and wrote both
C12_Witness ==
  /\ pc = "done"
  /\ Len(df) >= 2
  /\ out_csv = [t |-> "written", rows |-> df]
  /\ \E r \in 1..Len(df) : ~AllNull(df[r])

\* a run crashed in its second row, after the first row was resolved
C12_CrashWitness ==
  /\ pc = "raised"
  /\ index = 2
  /\ ~AllNull(df[1])
  /\ out_csv = StaleFile

(***************************************************************************)
(* Two successive runs of the script over the same events.csv, against a   *)
(* backend that answers each query the same way every time                 *)
(***************************************************************************)
Queries == {<<"a">>, <<"b">>}

OutcomeKinds == {"match", "nomatch", "timeout", "service_error", "other"}

\* the answer of the repeatable backend to one query
OracleOutcome(query) ==
  LET kd == IF query \in DOMAIN oracle THEN oracle[query] ELSE "nomatch"
  IN [kind |-> kd, loc |-> IF kd = "match" THEN Coords(query) ELSE <<>>]

\* line 30 against the repeatable backend
GeocodeRepeatable ==
  \E d \in 0..MaxLatency : Attempt(OracleOutcome(fc_address.v), d)

\* `python preprocess.py` is started again after the first run has ended:
\* a new process, the files as the first run left them
Rerun ==
  /\ pc \in {"done", "raised"}
  /\ run = 1
  /\ run' = 2
  /\ first_out' = out_csv
  /\ pc' = "main"
  /\ df' = <<>>
  /\ index' = 1
  /\ address' = <<>>
  /\ k' = 1
  /\ latitudes' = <<>>
  /\ longitudes' = <<>>
  /\ addr' = None
  /\ fc_address' = None
  /\ geocode' = get_geocoder
  /\ ret' = None
  /\ exc' = NoExc
  /\ sinceRequest' = -1
  /\ gap' = -1
  /\ requests' = 0
  /\ outcomes' = "unused"
  /\ results' = <<>>
  /\ df_columns' = <<>>
  /\ UNCHANGED <<events_csv, out_csv, oracle, csv_columns, out_columns, auxLoad,
                 auxRender, auxUI>>

InitTwice ==
  /\ events_csv \in InputFiles
  /\ out_csv = StaleFile
  /\ df = <<>>
  /\ pc = "main"
  /\ index = 1
  /\ address = <<>>
  /\ k = 1
  /\ latitudes = <<>>
  /\ longitudes = <<>>
  /\ addr = None
  /\ fc_address = None
  /\ geocode = get_geocoder
  /\ ret = None
  /\ exc = NoExc
  /\ sinceRequest = -1
  /\ gap = -1
  /\ requests = 0
  /\ outcomes = "unused"
  /\ results = <<>>
  /\ csv_columns = ExportHeader
  /\ df_columns = <<>>
  /\ out_columns = <<>>
  /\ raw_csv = [columns |-> <<>>, cells |-> <<>>]
  /\ cleaned_columns = <<>>
  /\ loaded = EmptyFrame
  /\ oracle \in [Queries -> OutcomeKinds]
  /\ first_out = NoFile
  /\ run = 1
  /\ event = None
  /\ view = ""
  /\ markers = <<>>
  /\ UIIdle

NextTwice ==
  LoadData \/ BeginRow \/ FetchEnter \/ GeocodeRepeatable \/ StoreResult \/ ToCsv \/ Rerun

SpecTwice == InitTwice /\ [][NextTwice]_vars

\* C13: when the second of two runs over the same input has ended, the
\* output file is what the first run left: the same table when the runs
\* ended in to_csv, and no output from either when they ended in an exception.
C13_SecondRunSameOutput ==
  (run = 2 /\ pc \in {"done", "raised"})
    => /\ out_csv = first_out
       /\ (pc = "done") <=> (first_out.t = "written")

\* both runs wrote a table with a resolved and an unresolved row
C13_Witness ==
  /\ run = 2
  /\ pc = "done"
  /\ out_csv = first_out
  /\ \E r, q \in 1..Len(out_csv.rows) :
       /\ ~AllNull(out_csv.rows[r])
       /\ out_csv.rows[q].Lokation.t = "str"
       /\ AllNull(out_csv.rows[q])

(***************************************************************************)
(* The batch run over headers with and without the contact columns         *)
(***************************************************************************)
InitPII ==
  /\ events_csv \in {f \in InputFiles : Len(f.rows) <= 1}
  /\ out_csv = StaleFile
  /\ df = <<>>
  /\ pc = "main"
  /\ index = 1
  /\ address = <<>>
  /\ k = 1
  /\ latitudes = <<>>
  /\ longitudes = <<>>
  /\ addr = None
  /\ fc_address = None
  /\ geocode = get_geocoder
  /\ ret = None
  /\ exc = NoExc
  /\ sinceRequest = -1
  /\ gap = -1
  /\ requests = 0
  /\ outcomes = "unused"
  /\ results = <<>>
  /\ csv_columns \in PIIHeaders
  /\ df_columns = <<>>
  /\ out_columns = <<>>
  /\ raw_csv = [columns |-> <<>>, cells |-> <<>>]
  /\ cleaned_columns = <<>>
  /\ loaded = EmptyFrame
  /\ oracle = <<>>
  /\ first_out = NoFile
  /\ run = 1
  /\ event = None
  /\ view = ""
  /\ markers = <<>>
  /\ UIIdle

SpecPII == InitPII /\ [][Next]_vars

\* the personally identifying column names
PII == { <<"M", "a", "i", "l", "a", "d", "r", "e", "s", "s", "e">>, <<"K", "o", "l", "o", "n", "n", "e", " ", "1", "6">> }

\* the file has a contact column
HasPII == \E i \in 1..Len(csv_columns) : CleanColumn(csv_columns[i]) \in PII

\* C15: once the table is loaded, and so whenever a row is geocoded, it has
\* neither 'Mailadresse' nor 'Kolonne 16'; the output file never has them;
\* dropping them raises nothing, and a file without them is written with
\* all its columns.
C15_PIIColumnsRemoved ==
  /\ pc # "main" => \A i \in 1..Len(df_columns) : df_columns[i] \notin PII
  /\ \A i \in 1..Len(out_columns) : out_columns[i] \notin PII
  /\ exc.type # "KeyError"
  /\ (pc = "done" /\ events_csv.kind = "ok")
       => \A i \in 1..Len(csv_columns) :
            CleanColumn(csv_columns[i]) \notin PII
              => \E j \in 1..Len(out_columns) : out_columns[j] = CleanColumn(csv_columns[i])

\* a file with both contact columns was geocoded and written without them
C15_Witness ==
  /\ pc = "done"
  /\ Col_Mailadresse \in Range(csv_columns)
  /\ Col_Kolonne16 \in Range(csv_columns)
  /\ Len(df) = 1
  /\ ~AllNull(df[1])
  /\ Len(out_columns) = Len(csv_columns) + 3

\* a file without the contact columns was read, geocoded and written
C15_WitnessWithout ==
  /\ pc = "done"
  /\ ~HasPII
  /\ Len(df) = 1
  /\ ~AllNull(df[1])
  /\ Len(out_columns) = Len(csv_columns) + 5

(***************************************************************************)
(* Order of the backend calls                                              *)
(***************************************************************************)
\* the positions of the line breaks of a text
Breaks(s) == {i \in 1..Len(s) : s[i] = "\n"}

\* position of the n-th line break; 0 before the text, Len + 1 after it
BreakAt(s, n) ==
  IF n = 0 THEN 0
  ELSE IF n > Cardinality(Breaks(s)) THEN Len(s) + 1
       ELSE CHOOSE p \in Breaks(s) : Cardinality({i \in Breaks(s) : i < p}) = n - 1

\* the n-th address of a Location, counted from the left
Piece(s, n) == SubSeq(s, BreakAt(s, n - 1) + 1, BreakAt(s, n) - 1)

NumPieces(s) == Cardinality(Breaks(s)) + 1

\* C18: whenever a request is about to go to the backend it is for the
\* next address in input order: every call for an earlier row and for an
\* earlier address of this row has returned, no call for a later address or
\* row has been made, and the query is this address after normalization.
C18_CallsInInputOrder ==
  pc = "geocode"
    => /\ index \in 1..Len(df)
       /\ HasText(index)
       /\ k = Len(results[index]) + 1
       /\ k <= NumPieces(df[index].Lokation.v)
       /\ addr = PyStr(Piece(df[index].Lokation.v, k))
       /\ fc_address = PyStr(NormalizeAddress(Piece(df[index].Lokation.v, k)))
       /\ \A r \in 1..(index - 1) : Len(results[r]) = NumPieces(df[r].Lokation.v)
       /\ \A r \in (index + 1)..Len(df) : results[r] = <<>>

\* the request for the second address of the second row, after the
\* three calls before it have returned
C18_Witness ==
  /\ pc = "geocode"
  /\ index = 2
  /\ k = 2
  /\ Len(results[1]) = 2
  /\ Len(results[2]) = 1
  /\ fc_address = PyStr(<<"b">>)

(***************************************************************************)
(* Normalization of the address before lookup                              *)
(***************************************************************************)
Qualifier_mf == <<" ", "1", ".", "m", "f", ".">>
Qualifier_st == <<" ", "s", "t">>

\* the qualifier stands in the text as a token of its own: what follows it
\* is the end of the text, white space or a comma
HasToken(s, q) ==
  \E i \in 1..(Len(s) - Len(q) + 1) :
    /\ SubSeq(s, i, i + Len(q) - 1) = q
    /\ (i + Len(q) > Len(s) \/ s[i + Len(q)] \in Whitespace \cup {","})

\* C20: an address that has neither ' 1.mf.' nor ' st' as a separate token
\* is sent to the backend as it was given.
C20_OnlyTokensStripped ==
  (pc = "geocode" /\ ~HasToken(addr.v, Qualifier_mf) /\ ~HasToken(addr.v, Qualifier_st))
    => fc_address = addr

(***************************************************************************)
(* The map consumers of events_with_coordinates.csv: the detail view of    *)
(* app.py and the full map of map.py                                       *)
(***************************************************************************)
\* str(n) of a natural number
RECURSIVE IntText(_)
IntText(n) == IF n < 10 THEN <<Digits[n + 1]>> ELSE IntText(n \div 10) \o <<Digits[(n % 10) + 1]>>

\* int(text): the number a run of digits spells
RECURSIVE ParseInt(_)
ParseInt(s) ==
  IF s = <<>> THEN 0 ELSE 10 * ParseInt(SubSeq(s, 1, Len(s) - 1)) + DigitVal(s[Len(s)])

\* str.split(sep) for a separator of any length
RECURSIVE SplitOn(_, _)
SplitOn(s, sep) ==
  IF ~ \E i \in 1..(Len(s) - Len(sep) + 1) : SubSeq(s, i, i + Len(sep) - 1) = sep
  THEN <<s>>
  ELSE LET i == CHOOSE j \in 1..(Len(s) - Len(sep) + 1) :
                  /\ SubSeq(s, j, j + Len(sep) - 1) = sep
                  /\ \A m \in 1..(j - 1) : SubSeq(s, m, m + Len(sep) - 1) # sep
       IN <<SubSeq(s, 1, i - 1)>> \o SplitOn(SubSeq(s, i + Len(sep), Len(s)), sep)

\* str(list) as to_csv writes a list cell: "[56, 10]"
RECURSIVE ListItems(_)
ListItems(xs) ==
  IF xs = <<>> THEN <<>>
  ELSE IF Len(xs) = 1 THEN IntText(xs[1])
  ELSE IntText(xs[1]) \o <<",", " ">> \o ListItems(Tail(xs))

ListText(xs) == <<"[">> \o ListItems(xs) \o <<"]">>

\* json.loads of the text of a list of numbers
json_loads(text) ==
  LET inner == Strip(SubSeq(text, 2, Len(text) - 1))
      items == IF inner = <<>> THEN <<>> ELSE SplitOn(inner, <<",">>)
  IN [i \in 1..Len(items) |-> ParseInt(Strip(items[i]))]

\* a cell after to_csv and read_csv: None comes back as NaN, a list as its text
CsvCell(x) ==
  CASE x.t = "None" -> NaN
    [] x.t = "list" -> PyStr(ListText(x.v))
    [] OTHER -> x

\* pd.notna on a scalar
notna(x) == ~(x.t = "None" \/ (x.t = "float" /\ x.v = <<>>))

\* what fetch_coordinates can have returned for one address of the file
PossibleRets(piece) ==
  IF InvalidAddress(PyStr(NormalizeAddress(piece))) THEN {None}
  ELSE {None, PyTuple(Coords(NormalizeAddress(piece)))}

\* the accumulator of lines 126-135 after the first j addresses
RECURSIVE Accumulated(_, _, _)
Accumulated(rets, j, i) ==
  IF j = 0 THEN <<>> ELSE AppendCoordinate(Accumulated(rets, j - 1, i), rets[j], i)

\* the row __main__ leaves for a Location whose lookups returned `rets`
FinalRow(cell, rets) ==
  IF Len(rets) = 1
  THEN IF Truthy(rets[1]) THEN StoreSingle(NewRow(cell), rets[1]) ELSE NewRow(cell)
  ELSE StoreLists(NewRow(cell), Accumulated(rets, Len(rets), 1),
                  Accumulated(rets, Len(rets), 2))

\* the rows the batch run can have written
WrittenRows ==
  UNION {LET parts == Split(cell.v, "\n") IN
         {FinalRow(cell, rets) :
            rets \in {f \in [1..Len(parts) -> UNION {PossibleRets(parts[i]) : i \in 1..Len(parts)}] :
                        \A i \in 1..Len(parts) : f[i] \in PossibleRets(parts[i])}} :
         cell \in Lokations \ {NaN}}

\* the Venue cell: absent, or n venue names separated by ", "
RECURSIVE VenueText(_)
VenueText(n) == IF n = 1 THEN <<"V">> ELSE VenueText(n - 1) \o <<",", " ", "V">>

Venues == {NaN} \cup {PyStr(VenueText(n)) : n \in 1..MaxAddresses}

\* the records the app reads from the output file
Events ==
  {[Lokation |-> row.Lokation,
    Latitude |-> CsvCell(row.Latitude), Longitude |-> CsvCell(row.Longitude),
    Latitude_List |-> CsvCell(row.Latitude_List),
    Longitude_List |-> CsvCell(row.Longitude_List),
    Venue |-> venue] : row \in WrittenRows, venue \in Venues}

\* DEFAULT_LATITUDE, DEFAULT_LONGITUDE (56.1566, 10.2039) and the lounge marker
\* (56.152753, 10.202235), in units no backend answer of the model uses
DefaultLocation == <<561566, 102039>>
LoungeLocation == <<56152753, 10202235>>

Marker(location, popup, icon) == [at |-> location, address |-> popup, kind |-> icon]

\* app.py lines 386-442: the markers of the detail view, or the exception
\* the section ends in
DetailMarkers(e) ==
  IF notna(e.Latitude) /\ notna(e.Longitude)
  THEN [ok |-> TRUE,
        drawn |-> <<Marker(<<e.Latitude.v[1], e.Longitude.v[1]>>, e.Lokation.v, "event")>>]
  ELSE IF notna(e.Latitude_List) /\ notna(e.Longitude_List)
       THEN IF e.Lokation.t # "str" \/ e.Venue.t # "str"
            THEN [ok |-> FALSE, drawn |-> <<>>]       \* .split on a float
            ELSE LET lats == json_loads(e.Latitude_List.v)
                     lons == json_loads(e.Longitude_List.v)
                     adds == Split(e.Lokation.v, "\n")
                     vens == SplitOn(e.Venue.v, <<",", " ">>)
                     n == Min(Min(Len(lats), Len(lons)), Min(Len(adds), Len(vens)))
                 IN [ok |-> TRUE,
                     drawn |-> [i \in 1..n |-> Marker(<<lats[i], lons[i]>>, adds[i], "event")]]
       ELSE [ok |-> TRUE, drawn |-> <<Marker(DefaultLocation, <<>>, "default")>>]

\* map.py lines 80-124 for a table of one event
FullMapMarkers(e) ==
  <<Marker(LoungeLocation, <<>>, "lounge")>>
    \o (IF notna(e.Latitude) /\ notna(e.Longitude)
        THEN <<Marker(<<e.Latitude.v[1], e.Longitude.v[1]>>, e.Lokation.v, "event")>>
        ELSE <<Marker(DefaultLocation, <<>>, "default")>>)

\* display_event_details(event) draws its map
DisplayEventDetails ==
  /\ pc = "browse"
  /\ view' = "detail"
  /\ LET r == DetailMarkers(event) IN
     IF r.ok
     THEN /\ markers' = r.drawn
          /\ pc' = "shown"
          /\ UNCHANGED exc
     ELSE /\ pc' = "raised"
          /\ exc' = [type |-> "AttributeError", in |-> "display_event_details"]
          /\ UNCHANGED markers
  /\ UNCHANGED <<mainVars, addr, fc_address, geocode, ret, sinceRequest, gap,
                 requests, outcomes, event, auxCols, auxLoad, auxRuns, auxUI>>

\* create_full_map(df) draws its map
CreateFullMap ==
  /\ pc = "browse"
  /\ view' = "full_map"
  /\ markers' = FullMapMarkers(event)
  /\ pc' = "shown"
  /\ UNCHANGED <<mainVars, addr, fc_address, geocode, ret, exc, sinceRequest, gap,
                 requests, outcomes, event, auxCols, auxLoad, auxRuns, auxUI>>

InitRender ==
  /\ events_csv = [kind |-> "missing", rows |-> <<>>]
  /\ out_csv = NoFile
  /\ df = <<>>
  /\ pc = "browse"
  /\ index = 1
  /\ address = <<>>
  /\ k = 1
  /\ latitudes = <<>>
  /\ longitudes = <<>>
  /\ addr = None
  /\ fc_address = None
  /\ geocode = get_geocoder
  /\ ret = None
  /\ exc = NoExc
  /\ sinceRequest = -1
  /\ gap = -1
  /\ requests = 0
  /\ outcomes = "unused"
  /\ results = <<>>
  /\ csv_columns = <<>>
  /\ df_columns = <<>>
  /\ out_columns = <<>>
  /\ raw_csv = [columns |-> <<>>, cells |-> <<>>]
  /\ cleaned_columns = <<>>
  /\ loaded = EmptyFrame
  /\ oracle = <<>>
  /\ first_out = NoFile
  /\ run = 1
  /\ event \in Events
  /\ view = ""
  /\ markers = <<>>
  /\ UIIdle

NextRender == DisplayEventDetails \/ CreateFullMap

SpecRender == InitRender /\ [][NextRender]_vars

(***************************************************************************)
(* Properties of the map consumers                                         *)
(***************************************************************************)
SinglePopulated == notna(event.Latitude) /\ notna(event.Longitude)
ListsPopulated == notna(event.Latitude_List) /\ notna(event.Longitude_List)

\* the markers drawn for the event, without the fixed lounge marker
EventMarkers == SelectSeq(markers, LAMBDA m : m.kind # "lounge")

\* C17: once a consumer has rendered a record, a populated single pair has
\* given one marker at that point, populated lists have given one marker
\* per listed coordinate, and a record with neither has given the
\* default-location marker; no rendering ends in an exception.
C17_RenderingByPopulatedPair ==
  view # ""
    => /\ pc = "shown"
       /\ IF SinglePopulated
          THEN /\ Len(EventMarkers) = 1
               /\ EventMarkers[1].kind = "event"
               /\ EventMarkers[1].at = <<event.Latitude.v[1], event.Longitude.v[1]>>
          ELSE IF ListsPopulated
               THEN LET lats == json_loads(event.Latitude_List.v)
                        lons == json_loads(event.Longitude_List.v)
                    IN /\ Len(EventMarkers) = Len(lats)
                       /\ \A i \in 1..Len(EventMarkers) :
                            /\ EventMarkers[i].kind = "event"
                            /\ EventMarkers[i].at = <<lats[i], lons[i]>>
               ELSE /\ Len(EventMarkers) = 1
                    /\ EventMarkers[1].kind = "default"
                    /\ EventMarkers[1].at = DefaultLocation

\* C19: every marker the detail view draws for a multi-address event stands
\* at the coordinate its own address resolves to.
C19_MarkerPairsAddressWithItsCoordinate ==
  (view = "detail" /\ pc = "shown" /\ ~SinglePopulated /\ ListsPopulated)
    => \A i \in 1..Len(markers) :
         markers[i].at = Coords(NormalizeAddress(markers[i].address))

(***************************************************************************)
(* Navigation of the app: main() of app.py as Streamlit runs it, once per  *)
(* click, with st.rerun() starting the script again                        *)
(***************************************************************************)
MaxEvents == 3

PyInt(n) == [t |-> "int", v |-> <<n>>]

NoClick == [w |-> "", idx |-> 0]
Click(w) == [w |-> w, idx |-> 0]

\* the validity test as it would be with `<= len(df)`
ValidIndex_inclusive(i, n) == i.t = "int" /\ 0 <= i.v[1] /\ i.v[1] <= n

\* line 596: isinstance(index, int) and 0 <= index < len(df)
ValidIndex(i, n) == i.t = "int" /\ 0 <= i.v[1] /\ i.v[1] < n

\* what one run of the script leaves: the session state, the page and the
\* widgets it rendered; the state of a keyed widget that was not rendered
\* (the 'With Details' checkbox) is dropped by Streamlit
Rendered(ss, pg, ws, sh) ==
  [ss |-> IF pg = "overview" THEN ss ELSE [ss EXCEPT !.show_details = FALSE],
   page |-> pg, widgets |-> ws, shown |-> sh]

\* main() run on a table of n events with the button `click` pressed; a
\* button returns True only where the run reaches its st.button call
RECURSIVE Script(_, _, _)
Script(ss, n, click) ==
  IF n = 0 THEN Rendered(ss, "empty", {}, None)                  \* lines 461-466
  ELSE IF click.w = "Homepage"                                   \* lines 491-494
  THEN Script([ss EXCEPT !.selected_event_index = None, !.show_full_map = FALSE],
              n, NoClick)
  ELSE IF click.w = "OverviewMap"                                \* lines 496-499
  THEN Script([ss EXCEPT !.show_full_map = TRUE, !.selected_event_index = None],
              n, NoClick)
  ELSE LET sidebar == {"Homepage", "OverviewMap"}
                        \cup (IF ss.selected_event_index # None
                              THEN {"BackSidebar"} ELSE {})
       IN
       IF ss.selected_event_index # None /\ click.w = "BackSidebar"   \* lines 507-509
       THEN Script([ss EXCEPT !.selected_event_index = None], n, NoClick)
       ELSE IF ss.show_full_map                                   \* lines 512-535
       THEN IF click.w = "GoBackMap"
            THEN Script([ss EXCEPT !.show_full_map = FALSE,
                                   !.selected_event_index = None], n, NoClick)
            ELSE Rendered(ss, "full_map", sidebar \cup {"GoBackMap"}, None)
       ELSE IF ss.selected_event_index = None                     \* lines 538-590
       THEN IF click.w = "ClickMeMap"
            THEN Script([ss EXCEPT !.show_full_map = TRUE,
                                   !.selected_event_index = None], n, NoClick)
            ELSE IF ss.show_details /\ click.w = "CardDetails" /\ click.idx < n
                 THEN Script([ss EXCEPT !.selected_event_index = PyInt(click.idx)],
                             n, NoClick)                          \* lines 247-249
                 ELSE Rendered(ss, "overview",
                               sidebar \cup {"ClickMeMap", "show_details",
                                             IF ss.show_details THEN "CardDetails"
                                                                ELSE "GridDetails"},
                               None)
       ELSE IF ValidIndex(ss.selected_event_index, n)             \* lines 596-598
       THEN LET s1 == [ss EXCEPT !.scroll_to_top = FALSE] IN      \* lines 296-299
            IF click.w = "BackToOverview"                         \* lines 302-304
            THEN Script([s1 EXCEPT !.selected_event_index = None], n, NoClick)
            ELSE Rendered(s1, "detail", sidebar \cup {"BackToOverview"},
                          ss.selected_event_index)
       ELSE Rendered([ss EXCEPT !.selected_event_index = None],   \* lines 600-605
                     "invalid", sidebar \cup {"ReturnToOverview"}, None)

\* a run of the script takes the session to its result
RunScript(ss, click) ==
  LET r == Script(ss, cached_len, click) IN
  /\ session_state' = r.ss
  /\ page' = r.page
  /\ widgets' = r.widgets
  /\ shown' = r.shown
  /\ rendered_len' = cached_len
  /\ UNCHANGED <<cached_len, mainVars, pc, addr, fc_address, geocode, ret, exc,
                 sinceRequest, gap, requests, outcomes, auxCols, auxLoad, auxRuns,
                 auxRender>>

\* lines 470-480: the session state of a new browser session
NewSession ==
  [selected_event_index |-> None, show_full_map |-> FALSE,
   scroll_to_top |-> FALSE, show_details |-> FALSE]

\* the page is opened, or reloaded, in the browser
OpenApp == RunScript(NewSession, NoClick)

\* a button that sets the state inside the script and calls st.rerun()
Press(w) == w \in widgets /\ RunScript(session_state, Click(w))

ClickHomepage == Press("Homepage")
ClickOverviewMap == Press("OverviewMap")
ClickBackSidebar == Press("BackSidebar")
ClickGoBackMap == Press("GoBackMap")
ClickMeMap == Press("ClickMeMap")
ClickBackToOverview == Press("BackToOverview")
ClickReturnToOverview == Press("ReturnToOverview")   \* its callback's st.rerun() is a no-op

\* 'View Details' of the grid: the callback set_event_index(idx) of lines
\* 96-98 runs before the script
ClickViewDetailsGrid ==
  /\ "GridDetails" \in widgets
  /\ \E i \in 0..(rendered_len - 1) :
       RunScript([session_state EXCEPT !.selected_event_index = PyInt(i),
                                       !.scroll_to_top = TRUE], NoClick)

\* 'View Details' of a card (lines 247-249)
ClickViewDetailsCard ==
  /\ "CardDetails" \in widgets
  /\ \E i \in 0..(rendered_len - 1) :
       RunScript(session_state, [w |-> "CardDetails", idx |-> i])

\* the 'With Details' checkbox of line 552
ToggleShowDetails ==
  /\ "show_details" \in widgets
  /\ RunScript([session_state EXCEPT !.show_details = ~@], NoClick)

\* the cache of load_data is cleared and the table read again, with another
\* number of events; nothing is run until the next click
DataChanges ==
  /\ page # ""
  /\ \E n \in 0..MaxEvents : n # cached_len /\ cached_len' = n
  /\ UNCHANGED <<session_state, page, widgets, shown, rendered_len, mainVars, pc,
                 addr, fc_address, geocode, ret, exc, sinceRequest, gap, requests,
                 outcomes, auxCols, auxLoad, auxRuns, auxRender>>

InitUI ==
  /\ events_csv = [kind |-> "missing", rows |-> <<>>]
  /\ out_csv = NoFile
  /\ df = <<>>
  /\ pc = "app"
  /\ index = 1
  /\ address = <<>>
  /\ k = 1
  /\ latitudes = <<>>
  /\ longitudes = <<>>
  /\ addr = None
  /\ fc_address = None
  /\ geocode = get_geocoder
  /\ ret = None
  /\ exc = NoExc
  /\ sinceRequest = -1
  /\ gap = -1
  /\ requests = 0
  /\ outcomes = "unused"
  /\ results = <<>>
  /\ csv_columns = <<>>
  /\ df_columns = <<>>
  /\ out_columns = <<>>
  /\ raw_csv = [columns |-> <<>>, cells |-> <<>>]
  /\ cleaned_columns = <<>>
  /\ loaded = EmptyFrame
  /\ oracle = <<>>
  /\ first_out = NoFile
  /\ run = 1
  /\ event = None
  /\ view = ""
  /\ markers = <<>>
  /\ session_state = NewSession
  /\ cached_len \in 0..MaxEvents
  /\ page = ""
  /\ widgets = {}
  /\ shown = None
  /\ rendered_len = 0

NextUI ==
  \/ OpenApp
  \/ ClickHomepage
  \/ ClickOverviewMap
  \/ ClickBackSidebar
  \/ ClickGoBackMap
  \/ ClickMeMap
  \/ ClickBackToOverview
  \/ ClickReturnToOverview
  \/ ClickViewDetailsGrid
  \/ ClickViewDetailsCard
  \/ ToggleShowDetails
  \/ DataChanges

SpecUI == InitUI /\ [][NextUI]_vars

\* C21: in every state of the session show_full_map is not true together
\* with a selected index; a rendered detail page shows the event of an
\* integer index within the table of that run; after a run that rendered a
\* page any other index has been reset to None.
C21_NavigationState ==
  /\ ~(session_state.show_full_map /\ session_state.selected_event_index # None)
  /\ page = "detail"
       => /\ shown = session_state.selected_event_index
          /\ shown.t = "int"
          /\ 0 <= shown.v[1]
          /\ shown.v[1] < rendered_len
  /\ page \in {"overview", "full_map", "invalid"}
       => session_state.selected_event_index = None

\* a selected index that the reloaded table no longer has was reset
C21_Witness ==
  /\ page = "invalid"
  /\ session_state.selected_event_index = None
  /\ "BackSidebar" \in widgets
  /\ rendered_len < MaxEvents

\* the detail page of the last event of the table
C21_DetailWitness ==
  /\ page = "detail"
  /\ shown = PyInt(MaxEvents - 1)
  /\ ~session_state.show_full_map

====
